---------------------------- MODULE Spec2Model ----------------------------
(***************************************************************************)
(* The three PDF image extractors of the repository as one state machine. *)
(*   gui  : src/extract_images_gui.py  (PySimpleGUI, main)                 *)
(*   kivy : src/main.py                (Kivy, PDFExtractor)                *)
(*   pro  : src/extractor_pro.py       (PyQt5, MainApp + ExtractThread)    *)
(* One behaviour is one run of one of the three programs (variant).        *)
(*                                                                         *)
(* Text is a sequence of one-character strings, so that formatting a       *)
(* number into a file name and cutting it out of a label again are         *)
(* computed, not assumed.  A blob stands for the raw bytes of one embedded *)
(* image; blob 0 is an image no decoder of the image library accepts.      *)
(*                                                                         *)
(* An exception that leaves a handler is given to the toolkit: the         *)
(* try/except of main() in the gui variant (message, then main returns),   *)
(* Kivy's event loop (the exception is re-raised, the program ends) and    *)
(* PyQt5's qFatal (the process aborts).                                    *)
(***************************************************************************)
EXTENDS Integers, Sequences, FiniteSets, TLC

MaxPages == 3

MaxImgs == 2

MaxLoads == 2

VARIABLES
    variant,    \* which of the three programs runs
    app,        \* "running", "exited" (main returned) or "crashed"
    loads,      \* Load / Select PDF actions so far, a cancelled dialog included
    last,       \* the step that ran last and what it showed, raised and wrote
    window,     \* gui: "main" or "select"
    pdf,        \* the document of the session: gui: vals['-PDF-'], kivy: pdf_path,
                \* pro: pdf_path of the thread whose finished signal was shown last
    images,     \* gui: the list extract_images_from_pdf returned
    extracted,  \* kivy: self.extracted
    container,  \* kivy: the widgets of self.container
    popup,      \* kivy: "none", "save" (Save Location) or "done"
    thumbs,     \* pro: self.thumbs
    grid,       \* pro: the frames of self.grid
    btnExport,  \* pro: self.btnExport.isEnabled()
    settings,   \* pro: self.settings['pattern']
    threads,    \* pro: every ExtractThread started, in order, each with the
                \* signals it has emitted (sent)
    events      \* pro: signals queued to the main thread

vars == <<variant, app, loads, last, window, pdf, images, extracted, container,
          popup, thumbs, grid, btnExport, settings, threads, events>>

guiVars == <<window, images>>

kivyVars == <<extracted, container, popup>>

proVars == <<thumbs, grid, btnExport, settings, threads, events>>

-----------------------------------------------------------------------------
(* Text *)

Digit == <<"0", "1", "2", "3", "4", "5", "6", "7", "8", "9">>

RECURSIVE Dec(_)
\* str(n) of a non-negative integer, as the f-strings and str.format render it
Dec(n) == IF n < 10 THEN <<Digit[n + 1]>> ELSE Dec(n \div 10) \o <<Digit[(n % 10) + 1]>>

RECURSIVE Flatten(_)
\* the concatenation of a sequence of sequences
Flatten(ss) == IF ss = <<>> THEN <<>> ELSE Head(ss) \o Flatten(Tail(ss))

-----------------------------------------------------------------------------
(* The files a user can pick *)

Undecodable == 0

CountVectors == UNION {[1..t -> 0..MaxImgs] : t \in 0..MaxPages}

ImagePages(c) == {p \in DOMAIN c : c[p] > 0}

LastImagePage(c) == CHOOSE p \in ImagePages(c) : \A q \in ImagePages(c) : q <= p

\* the pages of a document with c[p] images on page p; with bad, its last
\* image is in a codec the image library cannot decode
MkPages(c, bad) ==
    [p \in DOMAIN c |->
        [j \in 1..c[p] |->
            IF bad /\ p = LastImagePage(c) /\ j = c[p] THEN Undecodable ELSE p * 10 + j]]

NoFile == [kind |-> "none", pages |-> <<>>]

Files ==
    {[kind |-> "pdf", pages |-> MkPages(c, b)] : c \in CountVectors, b \in BOOLEAN}
    \cup {[kind |-> "missing", pages |-> <<>>], [kind |-> "corrupt", pages |-> <<>>]}

\* the documents of the specification's examples (2, 0 and 1 images on three
\* pages; no image at all), one whose second image cannot be decoded, a path
\* with no file and a file that is no PDF
Samples ==
    {[kind |-> "pdf", pages |-> MkPages(<<2, 0, 1>>, FALSE)],
     [kind |-> "pdf", pages |-> MkPages(<<0>>, FALSE)],
     [kind |-> "pdf", pages |-> MkPages(<<2>>, TRUE)],
     [kind |-> "missing", pages |-> <<>>],
     [kind |-> "corrupt", pages |-> <<>>]}

\* a file chooser offers only files that exist
Pickable(S) == {f \in S : f.kind # "missing"}

\* fitz.open succeeds
Opens(f) == f.kind = "pdf"

\* PIL's Image.open succeeds
Decodable(blob) == blob # Undecodable

-----------------------------------------------------------------------------
(* The outcome of a handler: what it showed, raised and wrote *)

NoFiles == [n \in {} |-> 0]

Outcome(op, err, msg) ==
    [op |-> op, err |-> err, msg |-> msg, records |-> -1, sel |-> {}, deny |-> {},
     written |-> NoFiles, reported |-> FALSE, count |-> 0, total |-> 0]

\* a load that got n records from the harvester
Loaded(op, err, msg, n) == [Outcome(op, err, msg) EXCEPT !.records = n]

\* the bytes of a preview written in place of the image's own
WriteFileThumbnail(files, name, data) ==
    [n \in (DOMAIN files) \cup {name} |-> IF n = name THEN data + 1000 ELSE files[n]]

\* open(path, 'wb').write(data): the file is created or overwritten
WriteFile(files, name, data) ==
    [n \in (DOMAIN files) \cup {name} |-> IF n = name THEN data ELSE files[n]]

RECURSIVE WriteAll(_, _)
\* the files left by writing the entries <<name, data>> in order
WriteAll(files, entries) ==
    IF entries = <<>> THEN files
    ELSE WriteAll(WriteFile(files, Head(entries)[1], Head(entries)[2]), Tail(entries))

\* the indices of s in ascending order that are in sel
RECURSIVE Chosen(_, _, _)
Chosen(n, k, sel) ==
    IF k > n THEN <<>>
    ELSE (IF k \in sel THEN <<k>> ELSE <<>>) \o Chosen(n, k + 1, sel)

\* the positions of order written before the first one whose write fails
RECURSIVE BeforeFailure(_, _)
BeforeFailure(order, deny) ==
    IF order = <<>> \/ Head(order) \in deny THEN <<>>
    ELSE <<Head(order)>> \o BeforeFailure(Tail(order), deny)

\* what a user can ask of one export: the boxes ticked and the one file,
\* if any, whose write the file system refuses
Selections(n) == SUBSET (1..n)

Denials(sel) == {{}} \cup {{i} : i \in sel}

-----------------------------------------------------------------------------
(* gui: src/extract_images_gui.py *)

GuiPageRecordsZeroIdx(pages, p) == [j \in 1..Len(pages[p]) |-> <<p, j - 1, pages[p][j]>>]

\* the records of page p (1-based) in the order the page declares them
GuiPageRecords(pages, p) == [j \in 1..Len(pages[p]) |-> <<p, j, pages[p][j]>>]

extract_images_from_pdf(f) ==
    Flatten([p \in 1..Len(f.pages) |-> GuiPageRecords(f.pages, p)])

\* create_thumbnail succeeds on every image of the list
build_selection_window_ok(imgs) == \A i \in DOMAIN imgs : Decodable(imgs[i][3])

\* fname = f"img_p{p}_i{i}.png"
GuiFileName(p, i) ==
    <<"i", "m", "g", "_", "p">> \o Dec(p) \o <<"_", "i">> \o Dec(i) \o <<".", "p", "n", "g">>

\* if not images: sg.popup('No images found.'); continue
GuiNoImagesIsError == Outcome("load", "DocumentOpenError", "No images found.")

GuiNoImages == Outcome("load", "none", "No images found.")

GuiEntry(rec) == <<GuiFileName(rec[1], rec[2]), rec[3]>>

GuiLoad(f, outGiven) ==
    /\ variant = "gui" /\ app = "running" /\ window = "main"
    /\ loads < MaxLoads
    /\ loads' = loads + 1
    /\ UNCHANGED <<variant, kivyVars, proVars>>
    /\ IF f.kind = "none" \/ ~outGiven
       THEN /\ last' = Outcome("load", "none", "Both PDF and output folder are required!")
            /\ UNCHANGED <<app, window, pdf, images>>
       ELSE IF f.kind = "missing"
       THEN /\ last' = Outcome("load", "DocumentOpenError", "PDF not found!")
            /\ UNCHANGED <<app, window, pdf, images>>
       ELSE IF ~Opens(f)
       THEN /\ last' = Outcome("load", "DocumentOpenError", "Unexpected error")
            /\ app' = "exited"
            /\ pdf' = f
            /\ UNCHANGED <<window, images>>
       ELSE /\ pdf' = f
            /\ images' = extract_images_from_pdf(f)
            /\ IF images' = <<>>
               THEN /\ last' = [GuiNoImages EXCEPT !.records = 0]
                    /\ app' = IF GuiNoImages.err = "none" THEN app ELSE "exited"
                    /\ UNCHANGED window
               ELSE IF ~build_selection_window_ok(images')
               THEN /\ last' = Loaded("load", "DecodeError", "Unexpected error", Len(images'))
                    /\ app' = "exited"
                    /\ UNCHANGED window
               ELSE /\ last' = Loaded("load", "none", "Select Images", Len(images'))
                    /\ window' = "select"
                    /\ UNCHANGED app

GuiExit ==
    /\ variant = "gui" /\ app = "running" /\ window = "main"
    /\ app' = "exited"
    /\ last' = Outcome("exit", "none", "")
    /\ UNCHANGED <<variant, loads, window, pdf, images, kivyVars, proVars>>

GuiCancel ==
    /\ variant = "gui" /\ app = "running" /\ window = "select"
    /\ app' = "exited"
    /\ last' = Outcome("cancel", "none", "")
    /\ UNCHANGED <<variant, loads, window, pdf, images, kivyVars, proVars>>

GuiDownload(sel, deny) ==
    /\ variant = "gui" /\ app = "running" /\ window = "select"
    /\ LET order == Chosen(Len(images), 1, sel)
           done == BeforeFailure(order, deny)
           files == WriteAll(NoFiles, [k \in DOMAIN done |-> GuiEntry(images[done[k]])])
       IN  last' = IF Len(done) < Len(order)
                   THEN [Outcome("export", "WriteError", "Unexpected error")
                            EXCEPT !.sel = sel, !.deny = deny, !.written = files]
                   ELSE [Outcome("export", "none", "Done")
                            EXCEPT !.sel = sel, !.deny = deny, !.written = files,
                                   !.reported = TRUE, !.count = Len(done),
                                   !.total = Len(done)]
    /\ app' = "exited"
    /\ UNCHANGED <<variant, loads, window, pdf, images, kivyVars, proVars>>

-----------------------------------------------------------------------------
(* kivy: src/main.py *)

\* name = f"p{page_num + 1}_i{idx + 1}.png", page_num and idx 0-based
KivyName(page_num, idx) ==
    <<"p">> \o Dec(page_num + 1) \o <<"_", "i">> \o Dec(idx + 1) \o <<".", "p", "n", "g">>

\* the ImageItem arguments of page page_num (0-based), in enumerate order
KivyPageItems(pages, page_num) ==
    [j \in 1..Len(pages[page_num + 1]) |->
        [name |-> KivyName(page_num, j - 1), img_data |-> pages[page_num + 1][j]]]

KivyItems(f) == Flatten([p \in 1..Len(f.pages) |-> KivyPageItems(f.pages, p - 1)])

\* the items built before ImageItem.__init__ raises in _get_texture
RECURSIVE KivyBuilt(_)
KivyBuilt(items) ==
    IF items = <<>> \/ ~Decodable(Head(items).img_data) THEN <<>>
    ELSE <<Head(items)>> \o KivyBuilt(Tail(items))

\* PDFExtractor.extract_images, reached from select_pdf's on_selection
extract_images(f) ==
    /\ variant = "kivy" /\ app = "running" /\ popup = "none"
    /\ loads < MaxLoads
    /\ loads' = loads + 1
    /\ pdf' = f
    /\ UNCHANGED <<variant, popup, guiVars, proVars>>
    /\ IF ~Opens(f)
       THEN /\ container' = <<>>
            /\ app' = "crashed"
            /\ last' = Outcome("load", "DocumentOpenError", "")
            /\ UNCHANGED extracted
       ELSE LET built == KivyBuilt(KivyItems(f))
            IN  /\ container' = built
                /\ extracted' = built
                /\ IF Len(built) < Len(KivyItems(f))
                   THEN /\ app' = "crashed"
                        /\ last' = Loaded("load", "DecodeError", "", Len(KivyItems(f)))
                   ELSE /\ last' = Loaded("load", "none", "", Len(KivyItems(f)))
                        /\ UNCHANGED app

save_images ==
    /\ variant = "kivy" /\ app = "running" /\ popup = "none"
    /\ popup' = "save"
    /\ last' = Outcome("save_images", "none", "Save Location")
    /\ UNCHANGED <<variant, app, loads, pdf, extracted, container, guiVars, proVars>>

KivyDismiss ==
    /\ variant = "kivy" /\ app = "running" /\ popup # "none"
    /\ popup' = "none"
    /\ last' = Outcome("dismiss", "none", "")
    /\ UNCHANGED <<variant, app, loads, pdf, extracted, container, guiVars, proVars>>

KivyEntry(item) == <<item.name, item.img_data>>

\* PDFExtractor._do_save; folderGiven is FALSE for an empty path, for which
\* os.makedirs raises
_do_save(folderGiven, sel, deny) ==
    /\ variant = "kivy" /\ app = "running" /\ popup = "save"
    /\ UNCHANGED <<variant, loads, pdf, extracted, container, guiVars, proVars>>
    /\ IF ~folderGiven
       THEN /\ app' = "crashed"
            /\ last' = [Outcome("export", "WriteError", "") EXCEPT !.sel = sel]
            /\ UNCHANGED popup
       ELSE LET order == Chosen(Len(extracted), 1, sel)
                done == BeforeFailure(order, deny)
                files == WriteAll(NoFiles,
                                  [k \in DOMAIN done |-> KivyEntry(extracted[done[k]])])
            IN  IF Len(done) < Len(order)
                THEN /\ app' = "crashed"
                     /\ last' = [Outcome("export", "WriteError", "")
                                    EXCEPT !.sel = sel, !.deny = deny, !.written = files]
                     /\ UNCHANGED popup
                ELSE /\ popup' = "done"
                     /\ last' = [Outcome("export", "none", "Saved image(s).")
                                    EXCEPT !.sel = sel, !.deny = deny, !.written = files,
                                           !.reported = TRUE, !.count = Len(done),
                                           !.total = Len(done)]
                     /\ UNCHANGED app

-----------------------------------------------------------------------------
(* pro: src/extractor_pro.py *)

\* self.settings['pattern'] at start-up: 'img_P{page}_I{idx}.png'.  A pattern
\* is a sequence of characters and replacement fields.
DefaultPatternLowerCase ==
    <<"i", "m", "g", "_", "p", "{page}", "_", "i", "{idx}", ".", "p", "n", "g">>

DefaultPattern ==
    <<"i", "m", "g", "_", "P", "{page}", "_", "I", "{idx}", ".", "p", "n", "g">>

\* what a user can type into the Settings dialog
Patterns ==
    { DefaultPattern,
      <<"i", "m", "g", "_", "{page}", ".", "p", "n", "g">>,
      <<"{name}", "_", "{page}", "_", "{idx}">> }

Fields == {"{page}", "{idx}"}

IsField(tok) == Len(tok) > 1

\* str.format(page=..., idx=...) raises KeyError on any other field
FormatOk(pattern) == \A k \in DOMAIN pattern : IsField(pattern[k]) => pattern[k] \in Fields

\* pattern.format(page=page, idx=idx), page and idx being text
Format(pattern, page, idx) ==
    Flatten([k \in DOMAIN pattern |->
                IF pattern[k] = "{page}" THEN page
                ELSE IF pattern[k] = "{idx}" THEN idx
                ELSE <<pattern[k]>>])

ProPageRecordsZeroBased(pages, page_number) ==
    [j \in 1..Len(pages[page_number + 1]) |->
        <<page_number, j, pages[page_number + 1][j]>>]

\* the records of page page_number (0-based) of ExtractThread.run
ProPageRecords(pages, page_number) ==
    [j \in 1..Len(pages[page_number + 1]) |->
        <<page_number + 1, j, pages[page_number + 1][j]>>]

\* f'P{page}-I{idx}', the text of a tile's check box
ChkText(page, idx) == <<"P">> \o Dec(page) \o <<"-", "I">> \o Dec(idx)

\* text.split('-')
RECURSIVE Split(_)
Split(text) ==
    IF text = <<>> THEN <<(<<>>)>>
    ELSE LET rest == Split(Tail(text))
         IN  IF Head(text) = "-" THEN <<(<<>>)>> \o rest
             ELSE <<(<<Head(text)>> \o Head(rest))>> \o Tail(rest)

\* chk.text().split('-')[0][1:] and chk.text().split('-')[1][1:]
PageOfText(text) == Tail(Split(text)[1])

IdxOfText(text) == Tail(Split(text)[2])

ProFileName(pattern, text) == Format(pattern, PageOfText(text), IdxOfText(text))

Thumb(rec) == [text |-> ChkText(rec[1], rec[2]), data |-> rec[3]]

\* the tiles display_thumbs builds before _bytes_to_pixmap raises
RECURSIVE ProBuilt(_)
ProBuilt(imgs) ==
    IF imgs = <<>> \/ ~Decodable(Head(imgs)[3]) THEN <<>>
    ELSE <<Thumb(Head(imgs))>> \o ProBuilt(Tail(imgs))

DisplayedAppended(old, built) == old \o built

\* self.thumbs = [] and then one append for each tile built
Displayed(old, built) == built

ExportLeftEnabled == TRUE

\* self.btnExport.setEnabled(False) in _init_ui
ExportEnabledAtStart == FALSE

Running(t) == t.pc \in {"open", "pages"}

\* an ExtractThread nothing refers to any more: run has returned and
\* self.thread is another thread
Collected == [file |-> NoFile, pc |-> "collected", page |-> 0, images |-> <<>>,
              sent |-> <<>>]

\* self.thread = ExtractThread(path): the thread self.thread referred to is
\* released, and collected if its run has returned
Released(ts) ==
    [i \in DOMAIN ts |-> IF i = Len(ts) /\ ~Running(ts[i]) THEN Collected ELSE ts[i]]

\* MainApp.load_pdf; f is NoFile when the file dialog is cancelled
load_pdf(f) ==
    /\ variant = "pro" /\ app = "running"
    /\ loads < MaxLoads
    /\ loads' = loads + 1
    /\ UNCHANGED <<variant, app, pdf, guiVars, kivyVars,
                   thumbs, grid, btnExport, settings, events>>
    /\ IF f.kind = "none"
       THEN /\ last' = Outcome("load", "none", "")
            /\ UNCHANGED threads
       ELSE /\ last' = Outcome("load", "none", "Loading")
            /\ threads' = Append(Released(threads),
                                 [file |-> f, pc |-> "open", page |-> 0, images |-> <<>>,
                                  sent |-> <<>>])

\* self.thread no longer refers to thread i, which still runs: the QThread
\* may be destroyed under it ("QThread: Destroyed while thread is still running")
ProThreadDestroyed(i) ==
    /\ variant = "pro" /\ app = "running"
    /\ i \in 1..(Len(threads) - 1)
    /\ Running(threads[i])
    /\ app' = "crashed"
    /\ last' = Outcome("thread", "none", "")
    /\ UNCHANGED <<variant, loads, pdf, guiVars, kivyVars, proVars>>

\* ExtractThread.run: doc = fitz.open(self.pdf_path)
ProRunOpen(i) ==
    /\ variant = "pro" /\ app = "running"
    /\ i \in DOMAIN threads
    /\ threads[i].pc = "open"
    /\ UNCHANGED <<variant, loads, pdf, guiVars, kivyVars,
                   thumbs, grid, btnExport, settings, events>>
    /\ IF Opens(threads[i].file)
       THEN /\ threads' = [threads EXCEPT ![i].pc = "pages"]
            /\ last' = Outcome("thread", "none", "")
            /\ UNCHANGED app
       ELSE /\ threads' = [threads EXCEPT ![i].pc = "failed"]
            /\ app' = "crashed"
            /\ last' = Outcome("thread", "DocumentOpenError", "")

\* a signal as the worker emitted it, with the worker's list as it was then
Signal(kind, cur, tot, imgs) == [kind |-> kind, cur |-> cur, tot |-> tot, images |-> imgs]

\* a turn of the loop that emits progressChanged before it goes through the
\* images of the page
ProRunPageEmitsFirst(i) ==
    /\ variant = "pro" /\ app = "running"
    /\ i \in DOMAIN threads
    /\ threads[i].pc = "pages"
    /\ threads[i].page < Len(threads[i].file.pages)
    /\ LET t == threads[i]
           total_pages == Len(t.file.pages)
       IN  /\ threads' = [threads EXCEPT
                             ![i].sent = Append(t.sent, Signal("progressChanged", t.page + 1,
                                                               total_pages, t.images)),
                             ![i].images = t.images \o ProPageRecords(t.file.pages, t.page),
                             ![i].page = t.page + 1]
           /\ events' = Append(events, [kind |-> "progressChanged", cur |-> t.page + 1,
                                        tot |-> total_pages, images |-> <<>>,
                                        file |-> NoFile])
    /\ last' = Outcome("thread", "none", "")
    /\ UNCHANGED <<variant, app, loads, pdf, guiVars, kivyVars,
                   thumbs, grid, btnExport, settings>>

\* ExtractThread.run: one turn of the loop over the pages: the images of the
\* page are appended, then progressChanged is emitted; sent keeps what this
\* worker has emitted so far
ProRunPage(i) ==
    /\ variant = "pro" /\ app = "running"
    /\ i \in DOMAIN threads
    /\ threads[i].pc = "pages"
    /\ threads[i].page < Len(threads[i].file.pages)
    /\ LET t == threads[i]
           total_pages == Len(t.file.pages)
           appended == t.images \o ProPageRecords(t.file.pages, t.page)
       IN  /\ threads' = [threads EXCEPT
                             ![i].images = appended,
                             ![i].sent = Append(t.sent, Signal("progressChanged", t.page + 1,
                                                               total_pages, appended)),
                             ![i].page = t.page + 1]
           /\ events' = Append(events, [kind |-> "progressChanged", cur |-> t.page + 1,
                                        tot |-> total_pages, images |-> <<>>,
                                        file |-> NoFile])
    /\ last' = Outcome("thread", "none", "")
    /\ UNCHANGED <<variant, app, loads, pdf, guiVars, kivyVars,
                   thumbs, grid, btnExport, settings>>

\* ExtractThread.run: self.finished.emit(images), and run returns
ProRunFinish(i) ==
    /\ variant = "pro" /\ app = "running"
    /\ i \in DOMAIN threads
    /\ threads[i].pc = "pages"
    /\ threads[i].page = Len(threads[i].file.pages)
    /\ threads' = [threads EXCEPT ![i] =
                      IF i = Len(threads)
                      THEN [threads[i] EXCEPT
                               !.pc = "done",
                               !.sent = Append(threads[i].sent,
                                               Signal("finished", 0, 0, threads[i].images))]
                      ELSE Collected]
    /\ events' = Append(events, [kind |-> "finished", cur |-> 0, tot |-> 0,
                                 images |-> threads[i].images,
                                 file |-> threads[i].file])
    /\ last' = Outcome("thread", "none", "")
    /\ UNCHANGED <<variant, app, loads, pdf, guiVars, kivyVars,
                   thumbs, grid, btnExport, settings>>

\* the lambda connected to progressChanged: self.progress.setValue(...),
\* the value shown being last.count
ProProgress ==
    /\ variant = "pro" /\ app = "running"
    /\ events # <<>> /\ Head(events).kind = "progressChanged"
    /\ last' = [Outcome("progress", "none", "")
                    EXCEPT !.count = (Head(events).cur * 100) \div Head(events).tot]
    /\ events' = Tail(events)
    /\ UNCHANGED <<variant, app, loads, pdf, guiVars, kivyVars,
                   thumbs, grid, btnExport, settings, threads>>

\* MainApp.display_thumbs, the slot of finished
display_thumbs ==
    /\ variant = "pro" /\ app = "running"
    /\ events # <<>> /\ Head(events).kind = "finished"
    /\ events' = Tail(events)
    /\ pdf' = Head(events).file
    /\ UNCHANGED <<variant, loads, guiVars, kivyVars, settings, threads>>
    /\ LET imgs == Head(events).images
           built == ProBuilt(imgs)
       IN  /\ thumbs' = Displayed(thumbs, built)
           /\ grid' = built
           /\ IF Len(built) < Len(imgs)
              THEN /\ app' = "crashed"
                   /\ last' = Loaded("display", "DecodeError", "", Len(imgs))
                   /\ UNCHANGED btnExport
              ELSE /\ btnExport' = TRUE
                   /\ last' = Loaded("display", "none", "Displayed thumbnails", Len(imgs))
                   /\ UNCHANGED app

\* MainApp.open_settings, the dialog accepted with pattern typed in
open_settings(pattern) ==
    /\ variant = "pro" /\ app = "running"
    /\ settings # pattern
    /\ settings' = pattern
    /\ last' = Outcome("settings", "none", "Settings updated")
    /\ UNCHANGED <<variant, app, loads, pdf, guiVars, kivyVars,
                   thumbs, grid, btnExport, threads, events>>

ProEntry(pattern, thumb) == <<ProFileName(pattern, thumb.text), thumb.data>>

\* MainApp.export_selected; outGiven is FALSE when the directory dialog is
\* cancelled
export_selected(outGiven, sel, deny) ==
    /\ variant = "pro" /\ app = "running"
    /\ btnExport
    /\ UNCHANGED <<variant, loads, pdf, guiVars, kivyVars,
                   thumbs, grid, btnExport, settings, threads, events>>
    /\ IF ~outGiven
       THEN /\ last' = Outcome("export_cancelled", "none", "")
            /\ UNCHANGED app
       ELSE LET order == Chosen(Len(thumbs), 1, sel)
                done == IF FormatOk(settings) THEN BeforeFailure(order, deny) ELSE <<>>
                files == WriteAll(NoFiles,
                                  [k \in DOMAIN done |-> ProEntry(settings, thumbs[done[k]])])
            IN  IF Len(done) < Len(order)
                THEN /\ app' = "crashed"
                     /\ last' = [Outcome("export",
                                         IF FormatOk(settings) THEN "WriteError"
                                         ELSE "KeyError", "Exporting")
                                    EXCEPT !.sel = sel, !.deny = deny, !.written = files]
                ELSE /\ last' = [Outcome("export", "none", "Exported images")
                                    EXCEPT !.sel = sel, !.deny = deny, !.written = files,
                                           !.reported = TRUE, !.count = Len(done),
                                           !.total = Len(order)]
                     /\ UNCHANGED app

-----------------------------------------------------------------------------

Init ==
    /\ variant \in {"gui", "kivy", "pro"}
    /\ app = "running"
    /\ loads = 0
    /\ last = Outcome("start", "none", "")
    /\ window = "main"
    /\ pdf = NoFile
    /\ images = <<>>
    /\ extracted = <<>>
    /\ container = <<>>
    /\ popup = "none"
    /\ thumbs = <<>>
    /\ grid = <<>>
    /\ btnExport = ExportEnabledAtStart
    /\ settings = DefaultPattern
    /\ threads = <<>>
    /\ events = <<>>

Next ==
    \/ \E f \in Samples \cup {NoFile}, outGiven \in BOOLEAN : GuiLoad(f, outGiven)
    \/ GuiExit
    \/ GuiCancel
    \/ \E sel \in Selections(Len(images)) : \E deny \in Denials(sel) : GuiDownload(sel, deny)
    \/ \E f \in Pickable(Samples) : extract_images(f)
    \/ save_images
    \/ KivyDismiss
    \/ \E folderGiven \in BOOLEAN, sel \in Selections(Len(extracted)) :
          \E deny \in Denials(sel) : _do_save(folderGiven, sel, deny)
    \/ \E f \in Pickable(Samples) \cup {NoFile} : load_pdf(f)
    \/ \E i \in DOMAIN threads : ProThreadDestroyed(i)
    \/ \E i \in DOMAIN threads : ProRunOpen(i)
    \/ \E i \in DOMAIN threads : ProRunPage(i)
    \/ \E i \in DOMAIN threads : ProRunFinish(i)
    \/ ProProgress
    \/ display_thumbs
    \/ \E pattern \in Patterns : open_settings(pattern)
    \/ \E outGiven \in BOOLEAN, sel \in Selections(Len(thumbs)) :
          \E deny \in Denials(sel) : export_selected(outGiven, sel, deny)

Spec == Init /\ [][Next]_vars

-----------------------------------------------------------------------------
(* One load of any document within the bounds, for what the harvesters    *)
(* return                                                                  *)

InitHarvest ==
    /\ variant \in {"gui", "kivy", "pro"}
    /\ app = "running"
    /\ loads = MaxLoads - 1
    /\ last = Outcome("start", "none", "")
    /\ window = "main"
    /\ pdf = NoFile
    /\ images = <<>>
    /\ extracted = <<>>
    /\ container = <<>>
    /\ popup = "none"
    /\ thumbs = <<>>
    /\ grid = <<>>
    /\ btnExport = ExportEnabledAtStart
    /\ settings = DefaultPattern
    /\ threads = <<>>
    /\ events = <<>>

NextHarvest ==
    \/ \E f \in Files : GuiLoad(f, TRUE)
    \/ \E f \in Pickable(Files) : extract_images(f)
    \/ \E f \in Pickable(Files) : load_pdf(f)
    \/ \E i \in DOMAIN threads : ProRunOpen(i)
    \/ \E i \in DOMAIN threads : ProRunPage(i)
    \/ \E i \in DOMAIN threads : ProRunFinish(i)
    \/ ProProgress
    \/ display_thumbs

SpecHarvest == InitHarvest /\ [][NextHarvest]_vars

\* QThread.start: the operating system runs every started worker, so a step
\* of run that stays possible is taken
WorkerRuns ==
    \A i \in 1..MaxLoads :
        /\ WF_vars(ProRunOpen(i))
        /\ WF_vars(ProRunPage(i))
        /\ WF_vars(ProRunFinish(i))

SpecExtraction == SpecHarvest /\ WorkerRuns

-----------------------------------------------------------------------------
(* What the claims are stated with.  Nothing here uses the operators that  *)
(* model the code: the records a document should give are counted from its *)
(* pages, and names and labels are read back character by character.       *)

Counts(f) == [p \in DOMAIN f.pages |-> Len(f.pages[p])]

RECURSIVE Sum(_)
Sum(c) == IF c = <<>> THEN 0 ELSE Head(c) + Sum(Tail(c))

DigitVal(ch) == CHOOSE d \in 0..9 : Digit[d + 1] = ch

RECURSIVE Num(_)
Num(ds) == IF Len(ds) = 1 THEN DigitVal(ds[1])
           ELSE 10 * Num(SubSeq(ds, 1, Len(ds) - 1)) + DigitVal(ds[Len(ds)])

IndexOf(text, ch) == CHOOSE k \in DOMAIN text : text[k] = ch /\ \A m \in 1..(k - 1) : text[m] # ch

\* <<page, index>> of a name p<page>_i<index>.png
KivyPair(name) ==
    <<Num(SubSeq(name, 2, IndexOf(name, "_") - 1)),
      Num(SubSeq(name, IndexOf(name, "_") + 2, IndexOf(name, ".") - 1))>>

\* <<page, index>> of a label P<page>-I<index>
TextPair(text) ==
    <<Num(SubSeq(text, 2, IndexOf(text, "-") - 1)),
      Num(SubSeq(text, IndexOf(text, "-") + 2, Len(text)))>>

GuiPairs == [k \in DOMAIN images |-> <<images[k][1], images[k][2]>>]

KivyPairs == [k \in DOMAIN extracted |-> KivyPair(extracted[k].name)]

ProPairs(i) == [k \in DOMAIN threads[i].images |->
                   <<threads[i].images[k][1], threads[i].images[k][2]>>]

\* the image indices of the records of page p, in extraction order
RECURSIVE IndicesOf(_, _)
IndicesOf(pairs, p) ==
    IF pairs = <<>> THEN <<>>
    ELSE (IF Head(pairs)[1] = p THEN <<Head(pairs)[2]>> ELSE <<>>) \o IndicesOf(Tail(pairs), p)

WellFormed(pairs, c) ==
    /\ Len(pairs) = Sum(c)
    /\ \A a, b \in DOMAIN pairs : a < b => pairs[a] # pairs[b]
    /\ \A a, b \in DOMAIN pairs : a < b => pairs[a][1] <= pairs[b][1]
    /\ \A k \in DOMAIN pairs : pairs[k][1] \in DOMAIN c
    /\ \A p \in DOMAIN c : IndicesOf(pairs, p) = [j \in 1..c[p] |-> j]

GuiHarvested == variant = "gui" /\ pdf.kind = "pdf"

KivyHarvested == variant = "kivy" /\ pdf.kind = "pdf" /\ app = "running"

ProHarvested(i) == variant = "pro" /\ threads[i].pc = "done"

FirstPageIsOne(pairs) == pairs # <<>> => pairs[1][1] = 1

\* C10 as claimed: the first record of every non-empty session has
\* page_number 1.
C10_FirstRecordOnPageOne ==
    /\ GuiHarvested => FirstPageIsOne(GuiPairs)
    /\ KivyHarvested => FirstPageIsOne(KivyPairs)
    /\ \A i \in DOMAIN threads : ProHarvested(i) => FirstPageIsOne(ProPairs(i))

FirstImagePage(c) == CHOOSE p \in DOMAIN c : c[p] > 0 /\ \A q \in 1..(p - 1) : c[q] = 0

FirstPageIsFirstImagePage(pairs, c) ==
    pairs # <<>> => /\ pairs[1][1] = FirstImagePage(c)
                    /\ \A k \in DOMAIN pairs : pairs[k][1] >= 1 /\ c[pairs[k][1]] > 0

\* C10 amended: page numbers are the 1-based positions of the pages, so the
\* first record of a non-empty session carries the number of the first page
\* that has an image, which is 1 only if page 1 has one; every page_number
\* is at least 1 and names a page that has an image.
C10_FirstRecordOnFirstImagePage ==
    /\ GuiHarvested => FirstPageIsFirstImagePage(GuiPairs, Counts(pdf))
    /\ KivyHarvested => FirstPageIsFirstImagePage(KivyPairs, Counts(pdf))
    /\ \A i \in DOMAIN threads :
          ProHarvested(i) => FirstPageIsFirstImagePage(ProPairs(i), Counts(threads[i].file))

C10_Witness ==
    \E i \in DOMAIN threads :
        /\ ProHarvested(i)
        /\ threads[i].images # <<>>
        /\ threads[i].images[1][1] = 2
        /\ Len(threads[i].file.pages[1]) = 0
-----------------------------------------------------------------------------
(* The session of the running program, for the claims about export *)

SessionLen ==
    CASE variant = "gui" -> Len(images)
      [] variant = "kivy" -> Len(extracted)
      [] variant = "pro" -> Len(thumbs)

\* the file name the program renders for record k of the session
RecName(k) ==
    CASE variant = "gui" -> GuiFileName(images[k][1], images[k][2])
      [] variant = "kivy" -> extracted[k].name
      [] variant = "pro" -> ProFileName(settings, thumbs[k].text)

RecData(k) ==
    CASE variant = "gui" -> images[k][3]
      [] variant = "kivy" -> extracted[k].img_data
      [] variant = "pro" -> thumbs[k].data

RECURSIVE PairsFrom(_, _, _)
\* the (page, index) of every image of a document with counts c, in order
PairsFrom(c, p, j) ==
    IF p > Len(c) THEN <<>>
    ELSE IF j > c[p] THEN PairsFrom(c, p + 1, 1)
    ELSE <<(<<p, j>>)>> \o PairsFrom(c, p, j + 1)

\* <<page, index>> of record k of the session
RecPair(k) ==
    CASE variant = "gui" -> GuiPairs[k]
      [] variant = "kivy" -> PairsFrom(Counts(pdf), 1, 1)[k]
      [] variant = "pro" -> TextPair(thumbs[k].text)

\* the step just taken was an export that got as far as its loop
Exported == last.op = "export"

K == Cardinality(last.sel)

NamesDistinct(S) == \A a, b \in S : a # b => RecName(a) # RecName(b)

NameRenders == variant = "pro" => FormatOk(settings)

\* C1 as claimed: an export of K selected records that meets no error leaves
\* exactly K files, one for each selected record with that record's bytes,
\* none for a record not selected, and reports K - whatever the pattern.
C1_ExportWritesKFiles ==
    (Exported /\ last.err = "none") =>
        /\ Cardinality(DOMAIN last.written) = K
        /\ \A k \in last.sel : /\ RecName(k) \in DOMAIN last.written
                               /\ last.written[RecName(k)] = RecData(k)
        /\ \A n \in DOMAIN last.written : \E k \in last.sel : n = RecName(k)
        /\ last.reported /\ last.count = K

\* C1 amended: every file an export writes carries the name and the
\* unchanged bytes of a selected record; an export that meets no error
\* reports K and has written a file for each of the K selected records; these
\* are K files, each with its own record's bytes, whenever the names rendered
\* for the selected records are pairwise distinct, which they are in the gui
\* and kivy variants and in the pro variant under the default pattern (two
\* records rendered to one name leave one file, the later record's).
C1_ExportWritesSelected ==
    Exported =>
        /\ \A n \in DOMAIN last.written :
              \E k \in last.sel : NameRenders /\ n = RecName(k) /\ last.written[n] = RecData(k)
        /\ last.err = "none" =>
              /\ last.reported /\ last.count = K
              /\ \A k \in last.sel : RecName(k) \in DOMAIN last.written
              /\ NamesDistinct(last.sel) =>
                    /\ Cardinality(DOMAIN last.written) = K
                    /\ \A k \in last.sel : last.written[RecName(k)] = RecData(k)
        /\ (variant \in {"gui", "kivy"} \/ settings = DefaultPattern) =>
              NamesDistinct(1..SessionLen)

C1_Witness ==
    /\ variant = "pro" /\ Exported /\ last.err = "none"
    /\ SessionLen = 3 /\ K = 2
    /\ Cardinality(DOMAIN last.written) = 2
    /\ last.count = 2

\* "No images found." and every other outcome of a load that found no image
SessionEmpty ==
    CASE variant = "gui" -> images = <<>>
      [] variant = "kivy" -> extracted = <<>> /\ container = <<>>
      [] variant = "pro" -> thumbs = <<>> /\ grid = <<>>

\* the guards of the load action, its budget aside
LoadEnabled ==
    /\ app = "running"
    /\ variant = "gui" => window = "main"
    /\ variant = "kivy" => popup = "none"

\* C3: a load that opened its PDF and found no image in it ends without an
\* error, with the empty session, and with the program running and ready for
\* another load.
C3_EmptyIsNotAnError ==
    last.records = 0 => /\ last.err = "none"
                        /\ SessionEmpty
                        /\ LoadEnabled

C3_Witness == variant = "gui" /\ last.records = 0 /\ pdf.kind = "pdf" /\ Len(pdf.pages) = 1

ClaimedName(pair) ==
    <<"i", "m", "g", "_", "p">> \o Dec(pair[1]) \o <<"_", "i">> \o Dec(pair[2])
        \o <<".", "p", "n", "g">>

VariantName(pair) ==
    CASE variant = "gui" -> ClaimedName(pair)
      [] variant = "kivy" ->
            <<"p">> \o Dec(pair[1]) \o <<"_", "i">> \o Dec(pair[2]) \o <<".", "p", "n", "g">>
      [] variant = "pro" ->
            <<"i", "m", "g", "_", "P">> \o Dec(pair[1]) \o <<"_", "I">> \o Dec(pair[2])
                \o <<".", "p", "n", "g">>

DefaultSettings == variant = "pro" => settings = DefaultPattern

SpecErrors == {"DocumentOpenError", "DecodeError", "WriteError"}

\* C5: after a DocumentOpenError, DecodeError or WriteError in a load or an
\* export, a message is on the screen and the program is running and ready
\* for another load.
C5_ErrorsAreCaught ==
    last.err \in SpecErrors => /\ app = "running"
                               /\ last.msg # ""
                               /\ LoadEnabled

\* C6: an export in which the write of one of the K selected files fails
\* still writes every other selected file and reports K attempted and K less
\* the failures succeeded.
C6_WriteFailureDoesNotAbort ==
    (Exported /\ last.deny # {}) =>
        /\ \A k \in last.sel \ last.deny : RecName(k) \in DOMAIN last.written
        /\ last.reported
        /\ last.total = K
        /\ last.count = K - Cardinality(last.deny)

SessionData == [k \in 1..SessionLen |-> RecData(k)]

\* a save or export can be started
SaveEnabled ==
    /\ app = "running"
    /\ variant = "gui" => window = "select"
    /\ variant = "pro" => btnExport

TilesShown ==
    CASE variant = "gui" -> TRUE
      [] variant = "kivy" -> container = extracted
      [] variant = "pro" -> grid = thumbs

C8_AtMostOneExtraction ==
    Cardinality({i \in DOMAIN threads : Running(threads[i])}) <= 1

IsShownOf(ths, imgs) ==
    /\ Len(ths) <= Len(imgs)
    /\ \A k \in DOMAIN ths : ths[k].data = imgs[k][3] /\ TextPair(ths[k].text) = <<imgs[k][1], imgs[k][2]>>

C9_Step ==
    /\ (thumbs' # thumbs \/ (btnExport' /\ ~btnExport)) =>
          /\ events # <<>> /\ Head(events).kind = "finished"
          /\ events' = Tail(events)
          /\ IsShownOf(thumbs', Head(events).images)
          /\ (btnExport' /\ app' = "running") => Len(thumbs') = Len(Head(events).images)
    /\ (variant = "pro" /\ last'.op = "export") => btnExport /\ thumbs' = thumbs
    /\ (Len(events') = Len(events) + 1 /\ events'[Len(events')].kind = "finished") =>
          \E i \in DOMAIN threads :
              /\ Running(threads[i]) /\ ~Running(threads'[i])
              /\ threads[i].page = Len(threads[i].file.pages)
              /\ events'[Len(events')].images = threads[i].images

\* C9: Export Selected is disabled at start; self.thumbs changes, and the
\* button becomes enabled, only in the step that takes a finished signal off
\* the queue, and then to the records that signal carries (all of them when
\* the program runs on with the button enabled); an export runs only with
\* the button enabled; and a
\* finished signal carries the records of a run that has gone through its
\* last page and returns - so an export never goes through the records of an
\* extraction that is still running.
C9_ExportReadsOnlyFinishedSessions == ~btnExport /\ [][C9_Step]_vars

C9_Witness ==
    /\ variant = "pro" /\ Exported /\ last.err = "none" /\ K >= 1
    /\ \E i \in DOMAIN threads : Running(threads[i]) /\ threads[i].images # <<>>

-----------------------------------------------------------------------------
(* What a worker emits *)

\* the signal carries, with their bytes, exactly the records of pages 1..k
\* of the document f
HasPages(sig, f, k) ==
    LET pairs == [n \in DOMAIN sig.images |-> <<sig.images[n][1], sig.images[n][2]>>]
    IN  /\ WellFormed(pairs, SubSeq(Counts(f), 1, k))
        /\ \A n \in DOMAIN sig.images :
              sig.images[n][3] = f.pages[pairs[n][1]][pairs[n][2]]

\* the k-th signal of the worker t is progressChanged(k, T), emitted when the
\* images of pages 1..k had been appended
IsProgress(t, k) ==
    /\ t.sent[k].kind = "progressChanged"
    /\ t.sent[k].cur = k
    /\ t.sent[k].tot = Len(t.file.pages)
    /\ HasPages(t.sent[k], t.file, k)

EmittedInOrder(t) ==
    LET T == Len(t.file.pages)
    IN  /\ t.pc = "open" => t.sent = <<>>
        /\ t.pc = "pages" => /\ Len(t.sent) <= T
                             /\ \A k \in DOMAIN t.sent : IsProgress(t, k)
        /\ t.pc = "done" => /\ Len(t.sent) = T + 1
                            /\ \A k \in 1..T : IsProgress(t, k)
                            /\ t.sent[T + 1].kind = "finished"
                            /\ HasPages(t.sent[T + 1], t.file, T)

\* what the slots are handed is what the worker emitted: a finished signal
\* in the queue carries the list of the last signal of a worker that returned
Delivered ==
    \A n \in DOMAIN events :
        events[n].kind = "finished" =>
            \E i \in DOMAIN threads :
                /\ threads[i].pc = "done"
                /\ events[n].images = threads[i].sent[Len(threads[i].sent)].images

Started(i) ==
    /\ variant = "pro" /\ i \in DOMAIN threads
    /\ Running(threads[i]) /\ Opens(threads[i].file)

Returned(i) == i \in DOMAIN threads /\ threads[i].pc = "done"

StaysReturned == \A i \in DOMAIN threads : threads[i].pc = "done" => threads'[i] = threads[i]

\* C11: in extractor_pro.py a worker started over a document of T pages that
\* opens emits progressChanged(k, T) once for each k = 1..T, in increasing
\* order, each when all images of pages 1..k have been appended, then
\* finished once, with the complete record list, and nothing after it (for
\* T = 0 finished with the empty list is all it emits); once started it goes
\* on until it has emitted finished and returned, and then stays so.
C11_ExtractionRunsToCompletion ==
    /\ [](variant = "pro" =>
            /\ \A i \in DOMAIN threads : EmittedInOrder(threads[i])
            /\ Delivered)
    /\ [][StaysReturned]_vars
    /\ \A i \in 1..MaxLoads : Started(i) ~> Returned(i)

C11_Witness ==
    /\ variant = "pro" /\ Returned(1)
    /\ Counts(threads[1].file) = <<2, 0, 1>>
    /\ [k \in 1..4 |-> <<threads[1].sent[k].kind, threads[1].sent[k].cur,
                         Len(threads[1].sent[k].images)>>]
          = <<(<<"progressChanged", 1, 2>>), <<"progressChanged", 2, 2>>,
              <<"progressChanged", 3, 3>>, <<"finished", 0, 3>>>>

=============================================================================
